---- MODULE Spec2Model ----
\* Model of rstim (src/src/main.rs): an index-path addressed outline tree,
\* its selection, the 'g' chord marker and the key-dispatching event loop.
EXTENDS Integers, Sequences, FiniteSets, TLC

\* ---------------------------------------------------------------- bounds
\* Largest number of nodes the model lets add_child build.
MaxNodes == 4
\* Number of past key presses remembered in the history variable.
HistLen == 2

\* ------------------------------------------------------- Rust data types
\* Option<T>: None is the empty tuple, Some(x) the one-element tuple.
None == <<>>

Some(x) == <<x>>

IsSome(o) == o # <<>>

Unwrap(o) == o[1]

\* Key codes the dispatcher distinguishes, and two it does not bind.
OtherKeys == {"a", "Enter"}

\* Events that are not Event::Key (mouse capture is enabled; resize).
NonKeyEvents == {"Mouse", "Resize"}

\* Node::new(name): a node with the given name and no children.
Node_new(name) == [name |-> name, children |-> <<>>]

\* Vec::len as usize, Vec::get(index) with a zero-based index.
Vec_get(v, index) == IF index < Len(v) THEN Some(v[index + 1]) ELSE None

\* Vec::push
Vec_push(v, x) == Append(v, x)

\* slice.last()
Vec_last(v) == v[Len(v)]

\* &selected[..selected.len() - 1]
Vec_init(v) == SubSeq(v, 1, Len(v) - 1)

\* last_mut() assignment: replace the final element.
Vec_set_last(v, x) == [v EXCEPT ![Len(v)] = x]

\* ------------------------------------------------------------ App state
\* App.tree: the root list of nodes.
VARIABLE tree
\* App.selected: Option of the index path of the selected node.
VARIABLE selected
\* App.prev_key_code: the chord marker (Idle is None).
VARIABLE prev_key_code
\* Where run's loop stands: "running", "quit", "error" or "panic".
VARIABLE status
\* The kind of the event read last.
VARIABLE event
\* The most recent key presses, newest first, each with the state it found.
VARIABLE hist
\* The lines of the tree pane as terminal.draw last rendered them.
VARIABLE lines

vars == <<tree, selected, prev_key_code, status, event, hist, lines>>

\* ------------------------------------------------------ App's functions
RECURSIVE get_node_mut_offbyone(_, _)
\* get_node_mut with the last-index test written i == path.len(): it never
\* holds, so the walk falls off the end of the loop and yields None.
get_node_mut_offbyone(current_nodes, path) ==
    IF path = <<>> THEN None
    ELSE LET n == Vec_get(current_nodes, path[1]) IN
         IF IsSome(n) THEN get_node_mut_offbyone(Unwrap(n).children, Tail(path))
         ELSE None

RECURSIVE get_node_mut(_, _)
\* App::get_node_mut: walk the index path from the given list; the last
\* index is looked up with get_mut, an empty path yields None.
get_node_mut(current_nodes, path) ==
    IF path = <<>> THEN None
    ELSE IF Len(path) = 1 THEN Vec_get(current_nodes, path[1])
    ELSE LET n == Vec_get(current_nodes, path[1]) IN
         IF IsSome(n) THEN get_node_mut(Unwrap(n).children, Tail(path))
         ELSE None

RECURSIVE get_parent_children_mut(_, _)
\* App::get_parent_children_mut: the child list reached by following every
\* index of the path (the root list for the empty path).
get_parent_children_mut(current_level, path) ==
    IF path = <<>> THEN Some(current_level)
    ELSE LET n == Vec_get(current_level, path[1]) IN
         IF IsSome(n) THEN get_parent_children_mut(Unwrap(n).children, Tail(path))
         ELSE None

RECURSIVE push_child_front(_, _, _)
\* The push written as children.insert(0, new_node).
push_child_front(nodes, path, new_node) ==
    IF Len(path) = 1
    THEN [nodes EXCEPT ![path[1] + 1].children = <<new_node>> \o @]
    ELSE [nodes EXCEPT ![path[1] + 1].children = push_child_front(@, Tail(path), new_node)]

RECURSIVE push_child(_, _, _)
\* selected_node.children.push(new_node) through the &mut Node returned by
\* get_node_mut(path); only used when that lookup is Some.
push_child(nodes, path, new_node) ==
    IF Len(path) = 1
    THEN [nodes EXCEPT ![path[1] + 1].children = Vec_push(@, new_node)]
    ELSE [nodes EXCEPT ![path[1] + 1].children = push_child(@, Tail(path), new_node)]

\* add_child whose root-list branch selects index len() instead of len() - 1.
add_child_lenindex(t, sel) ==
    LET new_node == Node_new("new node") IN
    IF IsSome(sel)
    THEN LET selected_path == Unwrap(sel)
             selected_node == get_node_mut(t, selected_path) IN
         IF IsSome(selected_node)
         THEN LET pushed == Vec_push(Unwrap(selected_node).children, new_node) IN
              [tree |-> push_child(t, selected_path, new_node),
               selected |-> Some(Append(selected_path, Len(pushed) - 1))]
         ELSE [tree |-> t, selected |-> sel]
    ELSE LET pushed == Vec_push(t, new_node) IN
         [tree |-> pushed, selected |-> Some(<<Len(pushed)>>)]

\* add_child whose root-list branch leaves the selection as it was.
add_child_noselect(t, sel) ==
    LET new_node == Node_new("new node") IN
    IF IsSome(sel)
    THEN LET selected_path == Unwrap(sel)
             selected_node == get_node_mut(t, selected_path) IN
         IF IsSome(selected_node)
         THEN LET pushed == Vec_push(Unwrap(selected_node).children, new_node) IN
              [tree |-> push_child(t, selected_path, new_node),
               selected |-> Some(Append(selected_path, Len(pushed) - 1))]
         ELSE [tree |-> t, selected |-> sel]
    ELSE [tree |-> Vec_push(t, new_node), selected |-> sel]

\* App::add_child: the tree and selection after the call.
add_child(t, sel) ==
    LET new_node == Node_new("new node") IN
    IF IsSome(sel)
    THEN LET selected_path == Unwrap(sel)
             selected_node == get_node_mut(t, selected_path) IN
         IF IsSome(selected_node)
         THEN LET pushed == Vec_push(Unwrap(selected_node).children, new_node) IN
              [tree |-> push_child(t, selected_path, new_node),
               selected |-> Some(Append(selected_path, Len(pushed) - 1))]
         ELSE [tree |-> t, selected |-> sel]
    ELSE LET pushed == Vec_push(t, new_node) IN
         [tree |-> pushed, selected |-> Some(<<Len(pushed) - 1>>)]

\* 'j' without the comparison against the sibling count.
move_down_unbounded(t, sel) ==
    IF IsSome(sel) /\ Unwrap(sel) # <<>>
    THEN {[selected |-> Some(Vec_set_last(Unwrap(sel), Vec_last(Unwrap(sel)) + 1)),
           status |-> "running"]}
    ELSE {[selected |-> sel, status |-> "running"]}

\* 'j' comparing against len() instead of len() - 1.
move_down_len(t, sel) ==
    IF IsSome(sel) /\ Unwrap(sel) # <<>>
    THEN LET s == Unwrap(sel)
             parent_nodes == get_parent_children_mut(t, Vec_init(s)) IN
         IF IsSome(parent_nodes) /\ Vec_last(s) < Len(Unwrap(parent_nodes))
         THEN {[selected |-> Some(Vec_set_last(s, Vec_last(s) + 1)),
                status |-> "running"]}
         ELSE {[selected |-> sel, status |-> "running"]}
    ELSE {[selected |-> sel, status |-> "running"]}

\* KeyCode::Char('j'): the possible outcomes (selection, loop status).
\* parent_nodes.len() - 1 on an empty list underflows usize: a panic in a
\* checked build, a wrap to usize::MAX (so the comparison holds) otherwise.
move_down(t, sel) ==
    IF IsSome(sel)
    THEN LET s == Unwrap(sel) IN
         IF s = <<>> THEN {[selected |-> sel, status |-> "running"]}
         ELSE LET parent_nodes == get_parent_children_mut(t, Vec_init(s)) IN
              IF IsSome(parent_nodes)
              THEN LET current_index == Vec_last(s)
                       n == Len(Unwrap(parent_nodes)) IN
                   IF n = 0
                   THEN {[selected |-> sel, status |-> "panic"],
                         [selected |-> Some(Vec_set_last(s, current_index + 1)),
                          status |-> "running"]}
                   ELSE IF current_index < n - 1
                   THEN {[selected |-> Some(Vec_set_last(s, current_index + 1)),
                          status |-> "running"]}
                   ELSE {[selected |-> sel, status |-> "running"]}
              ELSE {[selected |-> sel, status |-> "running"]}
    ELSE {[selected |-> sel, status |-> "running"]}

\* 'k' with the increment of the 'j' handler left in place of the decrement.
move_up_increment(sel) ==
    IF IsSome(sel) /\ Unwrap(sel) # <<>> /\ Vec_last(Unwrap(sel)) > 0
    THEN Some(Vec_set_last(Unwrap(sel), Vec_last(Unwrap(sel)) + 1))
    ELSE sel

\* KeyCode::Char('k'): the selection afterwards.
move_up(sel) ==
    IF IsSome(sel)
    THEN LET s == Unwrap(sel) IN
         IF s # <<>>
         THEN LET current_index == Vec_last(s) IN
              IF current_index > 0
              THEN Some(Vec_set_last(s, current_index - 1))
              ELSE sel
         ELSE sel
    ELSE sel

\* 'g' without the test that the tree is non-empty.
go_first_nocheck(t, sel, prev_key) ==
    IF prev_key = Some("g")
    THEN [selected |-> Some(<<0>>), prev_key_code |-> None]
    ELSE [selected |-> sel, prev_key_code |-> Some("g")]

\* 'g' that selects the first node on the arming press already.
go_first_eager(t, sel, prev_key) ==
    [selected |-> IF t # <<>> THEN Some(<<0>>) ELSE sel,
     prev_key_code |-> IF prev_key = Some("g") THEN None ELSE Some("g")]

\* 'g' that stores the key code on the confirming press as well.
go_first_rearm(t, sel, prev_key) ==
    [selected |-> IF prev_key = Some("g") /\ t # <<>> THEN Some(<<0>>) ELSE sel,
     prev_key_code |-> Some("g")]

\* KeyCode::Char('g'): selection and chord marker afterwards, given the
\* marker taken at the top of the handler.
go_first(t, sel, prev_key) ==
    IF prev_key = Some("g")
    THEN [selected |-> IF t # <<>> THEN Some(<<0>>) ELSE sel,
          prev_key_code |-> None]
    ELSE [selected |-> sel, prev_key_code |-> Some("g")]

\* 'G' without the descending while loop: the last top-level node only.
last_path_shallow(current_nodes) ==
    IF current_nodes = <<>> THEN <<>> ELSE <<Len(current_nodes) - 1>>

RECURSIVE last_path_firstchild(_, _)
\* 'G' whose while loop takes index 0 instead of the last index below the
\* top level (top says whether current_nodes is the root list).
last_path_firstchild(current_nodes, top) ==
    IF current_nodes = <<>> THEN <<>>
    ELSE LET index == IF top THEN Len(current_nodes) - 1 ELSE 0 IN
         <<index>> \o last_path_firstchild(current_nodes[index + 1].children, FALSE)

\* 'G' descending into first children.
last_path_first(current_nodes) == last_path_firstchild(current_nodes, TRUE)

RECURSIVE last_path(_)
\* KeyCode::Char('G'): the path built by descending into the last node of
\* each level until an empty child list is met.
last_path(current_nodes) ==
    IF current_nodes = <<>> THEN <<>>
    ELSE LET last_index == Len(current_nodes) - 1 IN
         <<last_index>> \o last_path(current_nodes[last_index + 1].children)

\* KeyCode::Char('G'): the selection afterwards.
go_last(t, sel) ==
    LET path == last_path(t) IN
    IF path # <<>> THEN Some(path) ELSE sel

\* ------------------------------------------------------------ rendering
\* One rendered line: the text is indent spaces followed by the node name,
\* the style is the highlight (black on white) or the default.
Line(indent, name, is_selected) ==
    [indent |-> indent, name |-> name, highlighted |-> is_selected]

RECURSIVE build_tree_lines_from_childrenfirst(_, _, _, _, _)
\* The for loop with the recursion into the children placed before the
\* push of the node's own line.
build_tree_lines_from_childrenfirst(nodes, sel, path, out, i) ==
    IF i >= Len(nodes) THEN out
    ELSE LET node == nodes[i + 1]
             current_path == Append(path, i)
             is_selected == IF IsSome(sel) THEN Unwrap(sel) = current_path
                            ELSE FALSE
             below == IF node.children # <<>>
                      THEN build_tree_lines_from_childrenfirst(
                               node.children, sel, current_path, out, 0)
                      ELSE out
             pushed == Append(below, Line(Len(path) * 2, node.name, is_selected)) IN
         build_tree_lines_from_childrenfirst(nodes, sel, path, pushed, i + 1)

RECURSIVE build_tree_lines_from_prefix(_, _, _, _, _)
\* The for loop with is_selected computed as sel.starts_with(&current_path):
\* the ancestors of the selected node are highlighted as well.
build_tree_lines_from_prefix(nodes, sel, path, out, i) ==
    IF i >= Len(nodes) THEN out
    ELSE LET node == nodes[i + 1]
             current_path == Append(path, i)
             is_selected == IF IsSome(sel)
                            THEN /\ Len(current_path) <= Len(Unwrap(sel))
                                 /\ SubSeq(Unwrap(sel), 1, Len(current_path)) = current_path
                            ELSE FALSE
             pushed == Append(out, Line(Len(path) * 2, node.name, is_selected))
             after == IF node.children # <<>>
                      THEN build_tree_lines_from_prefix(node.children, sel,
                                                        current_path, pushed, 0)
                      ELSE pushed IN
         build_tree_lines_from_prefix(nodes, sel, path, after, i + 1)

RECURSIVE build_tree_lines_from(_, _, _, _, _)
\* The body of build_tree_lines' for loop from index i on: push the line
\* of node i, recurse into its children when it has any, go on with i + 1.
build_tree_lines_from(nodes, sel, path, out, i) ==
    IF i >= Len(nodes) THEN out
    ELSE LET node == nodes[i + 1]
             current_path == Append(path, i)
             is_selected == IF IsSome(sel) THEN Unwrap(sel) = current_path
                            ELSE FALSE
             pushed == Append(out, Line(Len(path) * 2, node.name, is_selected))
             after == IF node.children # <<>>
                      THEN build_tree_lines_from(node.children, sel,
                                                 current_path, pushed, 0)
                      ELSE pushed IN
         build_tree_lines_from(nodes, sel, path, after, i + 1)

\* build_tree_lines(nodes, selected, path, lines): lines with the rendering
\* of the nodes appended.
build_tree_lines(nodes, sel, path, out) ==
    build_tree_lines_from(nodes, sel, path, out, 0)

\* ui: the lines handed to the tree pane.
ui(t, sel) == build_tree_lines(t, sel, <<>>, <<>>)

\* ------------------------------------------------------------- helpers
RECURSIVE NodeCount(_)
\* Number of nodes in a list of nodes, descendants included.
NodeCount(nodes) ==
    IF nodes = <<>> THEN 0
    ELSE 1 + NodeCount(Head(nodes).children) + NodeCount(Tail(nodes))

\* The state a key press found, with the key, pushed on the history.
Remember(k) ==
    SubSeq(<<[key |-> k, tree |-> tree, selected |-> selected,
              prev_key_code |-> prev_key_code]>> \o hist,
           1, IF Len(hist) + 1 < HistLen THEN Len(hist) + 1 ELSE HistLen)

\* ---------------------------------------------------------------- Init
\* App::new and the entry into run's loop.
Init ==
    /\ tree = <<>>
    /\ selected = None
    /\ prev_key_code = None
    /\ status = "running"
    /\ event = "none"
    /\ hist = <<>>
    /\ lines = ui(<<>>, None)

\* -------------------------------------------------------------- actions
\* terminal.draw(|f| ui(f, app))? at the top of the next loop iteration:
\* either the tree pane is rendered anew, or the draw fails before
\* rendering and run returns the error.
Redraw(t, sel) ==
    \E ok \in BOOLEAN :
        /\ lines' = IF ok THEN ui(t, sel) ELSE lines
        /\ status' = IF ok THEN "running" ELSE "error"

\* 'q' that a pending chord swallows: it only clears the marker then.
PressQ_swallowed ==
    /\ status = "running"
    /\ prev_key_code' = None
    /\ event' = "Key"
    /\ hist' = Remember("q")
    /\ IF prev_key_code = None
       THEN status' = "quit" /\ lines' = lines
       ELSE Redraw(tree, selected)
    /\ UNCHANGED <<tree, selected>>

\* 'q': the marker is taken, then run returns Ok.
PressQ ==
    /\ status = "running"
    /\ status' = "quit"
    /\ prev_key_code' = None
    /\ event' = "Key"
    /\ hist' = Remember("q")
    /\ UNCHANGED <<tree, selected, lines>>

\* 'A': add_child.
PressA ==
    /\ status = "running"
    /\ NodeCount(tree) < MaxNodes
    /\ LET r == add_child(tree, selected) IN
         /\ tree' = r.tree
         /\ selected' = r.selected
    /\ prev_key_code' = None
    /\ event' = "Key"
    /\ hist' = Remember("A")
    /\ Redraw(tree', selected')

\* 'j': move the selection to the next sibling.
PressJ ==
    /\ status = "running"
    /\ \E r \in move_down(tree, selected) :
         /\ selected' = r.selected
         /\ IF r.status = "running"
            THEN Redraw(tree, selected')
            ELSE status' = r.status /\ lines' = lines
    /\ prev_key_code' = None
    /\ event' = "Key"
    /\ hist' = Remember("j")
    /\ UNCHANGED tree

\* 'k': move the selection to the previous sibling.
PressK ==
    /\ status = "running"
    /\ selected' = move_up(selected)
    /\ prev_key_code' = None
    /\ event' = "Key"
    /\ hist' = Remember("k")
    /\ Redraw(tree, selected')
    /\ UNCHANGED tree

\* 'g': arm the chord, or fire go-to-first when it is armed.
PressG1 ==
    /\ status = "running"
    /\ LET r == go_first(tree, selected, prev_key_code) IN
         /\ selected' = r.selected
         /\ prev_key_code' = r.prev_key_code
    /\ event' = "Key"
    /\ hist' = Remember("g")
    /\ Redraw(tree, selected')
    /\ UNCHANGED tree

\* 'G': select the last node overall.
PressG ==
    /\ status = "running"
    /\ selected' = go_last(tree, selected)
    /\ prev_key_code' = None
    /\ event' = "Key"
    /\ hist' = Remember("G")
    /\ Redraw(tree, selected')
    /\ UNCHANGED tree

\* The add-child arm matching the letter in either case: 'a' adds a child.
PressOther_anycase ==
    /\ status = "running"
    /\ \E k \in OtherKeys :
         /\ hist' = Remember(k)
         /\ LET r == IF k = "a" /\ NodeCount(tree) < MaxNodes
                     THEN add_child(tree, selected)
                     ELSE [tree |-> tree, selected |-> selected] IN
              /\ tree' = r.tree
              /\ selected' = r.selected
    /\ prev_key_code' = None
    /\ event' = "Key"
    /\ Redraw(tree', selected')

\* Any other key code: only the marker is taken.
PressOther ==
    /\ status = "running"
    /\ \E k \in OtherKeys :
         /\ hist' = Remember(k)
    /\ prev_key_code' = None
    /\ event' = "Key"
    /\ Redraw(tree, selected)
    /\ UNCHANGED <<tree, selected>>

\* An event that is not a key press: the loop just goes round.
NonKeyEvent ==
    /\ status = "running"
    /\ \E e \in NonKeyEvents : event' = e
    /\ Redraw(tree, selected)
    /\ UNCHANGED <<tree, selected, prev_key_code, hist>>

\* event::read fails: run returns the error.
IoError ==
    /\ status = "running"
    /\ status' = "error"
    /\ UNCHANGED <<tree, selected, prev_key_code, event, hist, lines>>

Next ==
    \/ PressQ
    \/ PressA
    \/ PressJ
    \/ PressK
    \/ PressG1
    \/ PressG
    \/ PressOther
    \/ NonKeyEvent
    \/ IoError

Spec == Init /\ [][Next]_vars

\* ------------------------------------------------- vocabulary of claims
\* A key press has been handled, and k was the most recent one.
Pressed(k) == hist # <<>> /\ hist[1].key = k

RECURSIVE ValidPath(_, _)
\* Every index of the path is in range at its level, from the given list.
ValidPath(nodes, path) ==
    \/ path = <<>>
    \/ /\ path[1] \in 0 .. (Len(nodes) - 1)
       /\ ValidPath(nodes[path[1] + 1].children, Tail(path))

RECURSIVE ChildrenAt(_, _)
\* The child list under a valid path (the root list under the empty path).
ChildrenAt(nodes, path) ==
    IF path = <<>> THEN nodes
    ELSE ChildrenAt(nodes[path[1] + 1].children, Tail(path))

\* The node a valid non-empty path names.
NodeAt(nodes, path) ==
    ChildrenAt(nodes, Vec_init(path))[Vec_last(path) + 1]

\* A fresh node as add_child makes it.
Fresh == [name |-> "new node", children |-> <<>>]

\* ------------------------------------------------------------------ C1
\* C1: after any sequence of key presses, a present selection is a
\* non-empty path that resolves, index by index from the root list, to an
\* existing node.
SelectionResolves ==
    IsSome(selected) =>
        /\ Unwrap(selected) # <<>>
        /\ ValidPath(tree, Unwrap(selected))

\* A nested selection that 'k' has just moved to the previous sibling.
SelectionResolvesWitness ==
    /\ Pressed("k")
    /\ IsSome(selected)
    /\ Len(Unwrap(selected)) >= 2
    /\ selected # hist[1].selected

\* ------------------------------------------------------------------ C2
\* C2: add_child on the empty tree with no selection yields exactly one
\* top-level node, without children, selected at path [0].
AddChildOnEmpty ==
    (Pressed("A") /\ hist[1].tree = <<>> /\ hist[1].selected = None) =>
        /\ Len(tree) = 1
        /\ tree[1].children = <<>>
        /\ NodeCount(tree) = 1
        /\ selected = Some(<<0>>)

\* 'A' has been pressed on the empty application state.
AddChildOnEmptyWitness ==
    /\ Pressed("A")
    /\ hist[1].tree = <<>>
    /\ hist[1].selected = None
    /\ tree # <<>>

\* ------------------------------------------------------------------ C3
\* C3: with a selection at path p whose node has n children, add_child
\* adds exactly one node, at path p followed by n, after all the existing
\* children of the selected node; the new node has no children and the
\* placeholder name, and it becomes the selection.
AddChildAppends ==
    (Pressed("A") /\ IsSome(hist[1].selected)) =>
        LET p == Unwrap(hist[1].selected)
            before == ChildrenAt(hist[1].tree, p)
            n == Len(before) IN
        /\ NodeCount(tree) = NodeCount(hist[1].tree) + 1
        /\ selected = Some(Append(p, n))
        /\ ValidPath(tree, Append(p, n))
        /\ ChildrenAt(tree, p) = Append(before, Fresh)
        /\ NodeAt(tree, Append(p, n)) = Fresh

\* A child has been appended after an existing child that has a child of
\* its own, so position among the siblings is visible.
AddChildAppendsWitness ==
    /\ Pressed("A")
    /\ IsSome(hist[1].selected)
    /\ Len(ChildrenAt(hist[1].tree, Unwrap(hist[1].selected))) >= 1
    /\ ChildrenAt(hist[1].tree, Unwrap(hist[1].selected))[1].children # <<>>
    /\ NodeCount(tree) = NodeCount(hist[1].tree) + 1

\* ------------------------------------------------------------------ C4
\* The list of nodes with one fresh node appended to the child list under
\* the given valid path (to the root list under the empty path).
RECURSIVE WithAppended(_, _)
WithAppended(nodes, path) ==
    IF path = <<>> THEN Append(nodes, Fresh)
    ELSE [nodes EXCEPT ![path[1] + 1].children = WithAppended(@, Tail(path))]

\* C4: the program offers a command that adds a sibling of the selection:
\* from every state some key press appends a fresh node to the end of the
\* child list the selected node lives in (the root list when nothing is
\* selected) and selects it.
AddSiblingOffered ==
    (status = "running" /\ NodeCount(tree) < MaxNodes) =>
        LET group == IF IsSome(selected) THEN Vec_init(Unwrap(selected)) ELSE <<>>
            n == Len(ChildrenAt(tree, group)) IN
        ENABLED (/\ Next
                 /\ event' = "Key"
                 /\ tree' = WithAppended(tree, group)
                 /\ selected' = Some(Append(group, n)))

\* ------------------------------------------------------------------ C5
\* The number of siblings in the group a valid non-empty path belongs to.
GroupSize(nodes, path) == Len(ChildrenAt(nodes, Vec_init(path)))

\* C5: 'j' on the last index of the sibling group and 'k' on index 0 leave
\* selection and tree as they were (no wraparound), and so do both keys
\* when nothing is selected.
MoveAtEdgeIsNoOp ==
    /\ (/\ Pressed("j")
        /\ IsSome(hist[1].selected)
        /\ Vec_last(Unwrap(hist[1].selected))
             = GroupSize(hist[1].tree, Unwrap(hist[1].selected)) - 1)
       => (selected = hist[1].selected /\ tree = hist[1].tree /\ status # "panic")
    /\ (/\ Pressed("k")
        /\ IsSome(hist[1].selected)
        /\ Vec_last(Unwrap(hist[1].selected)) = 0)
       => (selected = hist[1].selected /\ tree = hist[1].tree)
    /\ ((Pressed("j") \/ Pressed("k")) /\ hist[1].selected = None)
       => (selected = None /\ tree = hist[1].tree /\ status # "panic")

\* 'j' has been pressed on the last of at least two siblings.
MoveAtEdgeIsNoOpWitness ==
    /\ Pressed("j")
    /\ IsSome(hist[1].selected)
    /\ GroupSize(hist[1].tree, Unwrap(hist[1].selected)) >= 2
    /\ Vec_last(Unwrap(hist[1].selected))
         = GroupSize(hist[1].tree, Unwrap(hist[1].selected)) - 1

\* ------------------------------------------------------------------ C6
\* C6: 'j' below the last index adds one to the last path component and
\* 'k' above index 0 subtracts one from it; in every case 'j' and 'k'
\* keep the path length and every earlier component.
MoveWithinGroup ==
    ((Pressed("j") \/ Pressed("k")) /\ IsSome(hist[1].selected)) =>
        LET s == Unwrap(hist[1].selected)
            i == Vec_last(s)
            n == GroupSize(hist[1].tree, s) IN
        /\ IsSome(selected)
        /\ Len(Unwrap(selected)) = Len(s)
        /\ Vec_init(Unwrap(selected)) = Vec_init(s)
        /\ tree = hist[1].tree
        /\ (Pressed("j") /\ i < n - 1) => Vec_last(Unwrap(selected)) = i + 1
        /\ (Pressed("k") /\ i > 0) => Vec_last(Unwrap(selected)) = i - 1

\* 'k' has moved the selection from index 2 to index 1 of a nested group.
MoveWithinGroupWitness ==
    /\ Pressed("k")
    /\ IsSome(hist[1].selected)
    /\ Len(Unwrap(hist[1].selected)) >= 2
    /\ Vec_last(Unwrap(hist[1].selected)) = 2
    /\ selected = Some(Vec_set_last(Unwrap(hist[1].selected), 1))

\* ------------------------------------------------------------------ C7
\* C7: 'g','g' from the Idle chord state selects path [0] when the tree has
\* a top-level node and leaves the selection absent on the empty tree; a
\* single 'g' from Idle never changes the selection.
GoFirstChord ==
    /\ (/\ Len(hist) >= 2
        /\ hist[2].key = "g"
        /\ hist[2].prev_key_code = None
        /\ hist[1].key = "g")
       => /\ hist[2].tree # <<>> => selected = Some(<<0>>)
          /\ hist[2].tree = <<>> => selected = None
          /\ tree = hist[2].tree
    /\ (Pressed("g") /\ hist[1].prev_key_code = None)
       => (selected = hist[1].selected /\ tree = hist[1].tree)

\* The chord has moved a nested selection back to the first root.
GoFirstChordWitness ==
    /\ Len(hist) >= 2
    /\ hist[2].key = "g"
    /\ hist[2].prev_key_code = None
    /\ hist[1].key = "g"
    /\ IsSome(hist[2].selected)
    /\ Len(Unwrap(hist[2].selected)) >= 2
    /\ selected = Some(<<0>>)

\* ------------------------------------------------------------------ C8
\* A 'g' pressed from Idle and then a key other than 'g' have been handled.
ChordCancelled ==
    /\ Len(hist) >= 2
    /\ hist[2].key = "g"
    /\ hist[2].prev_key_code = None
    /\ hist[1].key # "g"

\* What a key other than 'g' does to tree and selection on its own.
CommandAlone(k, t, sel) ==
    CASE k = "A" -> {add_child(t, sel)}
      [] k = "j" -> {[tree |-> t, selected |-> r.selected] : r \in move_down(t, sel)}
      [] k = "k" -> {[tree |-> t, selected |-> move_up(sel)]}
      [] k = "G" -> {[tree |-> t, selected |-> go_last(t, sel)]}
      [] OTHER -> {[tree |-> t, selected |-> sel]}

\* C8 as stated: after a single 'g' and any other key, the marker is clear
\* and selection and tree are as they were before the 'g'.
ChordCancelNoChange ==
    ChordCancelled =>
        /\ prev_key_code = None
        /\ selected = hist[2].selected
        /\ tree = hist[2].tree

\* C8 as amended: the 'g' press itself changes neither selection nor tree,
\* the other key clears the marker, and selection and tree end up exactly
\* as that key alone leaves them from the state before the 'g': unchanged
\* for keys bound to no command, the key's own command otherwise.
ChordCancelKeepsCommand ==
    ChordCancelled =>
        /\ hist[1].tree = hist[2].tree
        /\ hist[1].selected = hist[2].selected
        /\ hist[1].prev_key_code = Some("g")
        /\ prev_key_code = None
        /\ [tree |-> tree, selected |-> selected]
             \in CommandAlone(hist[1].key, hist[2].tree, hist[2].selected)
        /\ hist[1].key \in OtherKeys \cup {"q"}
             => (tree = hist[2].tree /\ selected = hist[2].selected)

\* 'g' then 'A': the chord is cancelled and the child is added all the same.
ChordCancelKeepsCommandWitness ==
    /\ ChordCancelled
    /\ hist[1].key = "A"
    /\ IsSome(hist[2].selected)
    /\ NodeCount(tree) = NodeCount(hist[2].tree) + 1

\* ------------------------------------------------------------------ C9
\* C9: after a key press the chord marker is set exactly when the key was
\* 'g' pressed from Idle; a 'g' changes the selection only when the marker
\* was set, and the third press of g,g,g re-arms without selecting.
ChordStateMachine ==
    hist # <<>> =>
        /\ prev_key_code \in {None, Some("g")}
        /\ prev_key_code = Some("g")
             <=> (hist[1].key = "g" /\ hist[1].prev_key_code = None)
        /\ (hist[1].key = "g" /\ selected # hist[1].selected)
             => hist[1].prev_key_code = Some("g")
        /\ (/\ Len(hist) >= 2
            /\ hist[2].key = "g"
            /\ hist[2].prev_key_code = Some("g")
            /\ hist[1].key = "g")
           => (prev_key_code = Some("g") /\ selected = hist[1].selected)

\* The third press of g,g,g on a non-empty tree has armed the marker again
\* instead of firing.
ChordStateMachineWitness ==
    /\ Len(hist) >= 2
    /\ hist[2].key = "g"
    /\ hist[2].prev_key_code = Some("g")
    /\ hist[1].key = "g"
    /\ tree # <<>>
    /\ prev_key_code = Some("g")

\* ----------------------------------------------------------------- C10
\* C10: 'G' on a non-empty tree selects the path that takes the last index
\* at every level, starting in the root list, and ends at a node without
\* children (for root=[X], X.children=[Y] that is Y at [0,0]); on the
\* empty tree it leaves the selection unchanged.
GoLastDeepest ==
    Pressed("G") =>
        /\ tree = hist[1].tree
        /\ tree = <<>> => selected = hist[1].selected
        /\ tree # <<>> =>
             /\ IsSome(selected)
             /\ Unwrap(selected) # <<>>
             /\ ValidPath(tree, Unwrap(selected))
             /\ \A i \in 1 .. Len(Unwrap(selected)) :
                  Unwrap(selected)[i]
                    = Len(ChildrenAt(tree, SubSeq(Unwrap(selected), 1, i - 1))) - 1
             /\ NodeAt(tree, Unwrap(selected)).children = <<>>
        /\ tree = <<[name |-> "new node", children |-> <<Fresh>>]>>
             => selected = Some(<<0, 0>>)

\* 'G' pressed with the root selected has descended to a last child that
\* is not the first of its group.
GoLastDeepestWitness ==
    /\ Pressed("G")
    /\ hist[1].selected = Some(<<0>>)
    /\ IsSome(selected)
    /\ Len(Unwrap(selected)) >= 2
    /\ Vec_last(Unwrap(selected)) >= 1

\* ----------------------------------------------------------------- C11
RECURSIVE PathsOf(_, _)
\* The index paths of all nodes in the list and below, each behind prefix.
PathsOf(nodes, prefix) ==
    UNION {{Append(prefix, i)} \cup PathsOf(nodes[i + 1].children, Append(prefix, i)) :
             i \in 0 .. (Len(nodes) - 1)}

\* p is q or comes before q in pre-order: p is a prefix of q (an ancestor
\* before its descendants), or at the first index where they differ p has
\* the smaller one (an earlier sibling's whole subtree before the later).
PreOrderLE(p, q) ==
    \/ /\ Len(p) <= Len(q)
       /\ SubSeq(q, 1, Len(p)) = p
    \/ \E i \in 1 .. Len(p) :
          /\ i <= Len(q)
          /\ SubSeq(p, 1, i - 1) = SubSeq(q, 1, i - 1)
          /\ p[i] < q[i]

\* The position of path p in the pre-order of the paths in P.
Rank(P, p) == Cardinality({q \in P : PreOrderLE(q, p)})

\* The loop is running or has just quit: the pane shows the current tree.
Rendered == status \in {"running", "quit"}

\* C11: the rendered lines are the nodes of the tree, each exactly once, in
\* depth-first pre-order, indented by two columns per ancestor; there are
\* as many lines as nodes, and A with children [B, C] gives depths 0, 1, 1.
PreOrderLines ==
    Rendered =>
        LET P == PathsOf(tree, <<>>) IN
        /\ Len(lines) = NodeCount(tree)
        /\ Len(lines) = Cardinality(P)
        /\ \A p \in P :
             LET r == Rank(P, p) IN
             /\ r \in 1 .. Len(lines)
             /\ lines[r].indent = 2 * (Len(p) - 1)
             /\ lines[r].name = NodeAt(tree, p).name
        /\ tree = <<[name |-> "new node", children |-> <<Fresh, Fresh>>]>>
             => [i \in 1 .. 3 |-> lines[i].indent] = <<0, 2, 2>>

\* A rendered tree in which a node with a child is followed by a sibling,
\* so the order of subtree and next sibling shows in the indents.
PreOrderLinesWitness ==
    /\ Rendered
    /\ Len(lines) = 4
    /\ [i \in 1 .. 4 |-> lines[i].indent] = <<0, 2, 4, 2>>

\* ----------------------------------------------------------------- C12
\* C12: no step reorders siblings: every index path that named a node
\* before the step names a node of the same name afterwards, whose earlier
\* children are still there in front; the root list only grows at its end;
\* and the tree either stays as it is or gets exactly one fresh node
\* appended at the end of one child list.
OnlyAppends ==
    [][/\ \A p \in PathsOf(tree, <<>>) :
            /\ ValidPath(tree', p)
            /\ NodeAt(tree', p).name = NodeAt(tree, p).name
            /\ Len(NodeAt(tree, p).children) <= Len(NodeAt(tree', p).children)
       /\ Len(tree) <= Len(tree')
       /\ \/ tree' = tree
          \/ \E g \in PathsOf(tree, <<>>) \cup {<<>>} :
                tree' = WithAppended(tree, g)]_vars

\* A node has been appended behind an earlier sibling that has a child.
OnlyAppendsWitness ==
    /\ Pressed("A")
    /\ IsSome(hist[1].selected)
    /\ IsSome(selected)
    /\ Vec_last(Unwrap(selected)) >= 1
    /\ ChildrenAt(tree, Unwrap(hist[1].selected))[1].children # <<>>
    /\ tree = WithAppended(hist[1].tree, Unwrap(hist[1].selected))

\* ----------------------------------------------------------------- C13
\* C13: apart from I/O errors the loop ends exactly by the quit key: it has
\* returned Ok if and only if the last key pressed was 'q', it never ends
\* by a panic, and while it runs 'q' can end it, a pending chord included.
QuitOnlyByQ ==
    /\ status \in {"running", "quit", "error"}
    /\ status = "quit" <=> Pressed("q")
    /\ \A k \in {"A", "j", "k", "g", "G"} \cup OtherKeys :
         Pressed(k) => status \in {"running", "error"}
    /\ status = "running" => ENABLED (PressQ /\ status' = "quit")

\* 'q' has ended the loop while the chord was pending.
QuitOnlyByQWitness ==
    /\ Pressed("q")
    /\ hist[1].prev_key_code = Some("g")
    /\ status = "quit"

\* ----------------------------------------------------------------- C15
\* C15: 'j', 'k', 'g', 'G' and every unbound key leave the tree as it was;
\* an unbound key also leaves the selection as it was and its only effect
\* is that the chord marker is clear afterwards.
NavigationKeepsTree ==
    /\ \A k \in {"j", "k", "g", "G"} \cup OtherKeys :
         Pressed(k) => tree = hist[1].tree
    /\ \A k \in OtherKeys :
         Pressed(k) => /\ selected = hist[1].selected
                       /\ prev_key_code = None
                       /\ status # "quit"

\* An unbound key has been pressed on a pending chord with a nested
\* selection.
NavigationKeepsTreeWitness ==
    /\ Pressed("a")
    /\ hist[1].prev_key_code = Some("g")
    /\ IsSome(selected)
    /\ Len(Unwrap(selected)) >= 2
    /\ prev_key_code = None

\* ----------------------------------------------------------------- C16
\* C16: after 'G' on a non-empty tree the selected node is the last one of
\* the pre-order, that is the last rendered line carries the highlight;
\* and a later 'G' with no 'A' in between selects the same path again.
GoLastIsLastLine ==
    /\ (Pressed("G") /\ tree # <<>>) =>
          /\ IsSome(selected)
          /\ Rank(PathsOf(tree, <<>>), Unwrap(selected)) = NodeCount(tree)
          /\ status = "running" =>
                /\ lines # <<>>
                /\ lines[Len(lines)].highlighted
    /\ \A i \in 2 .. Len(hist) :
          (/\ Pressed("G")
           /\ hist[i].key = "G"
           /\ \A j \in 1 .. (i - 1) : hist[j].key # "A")
          => selected = hist[i - 1].selected

\* 'G' pressed twice in a row on a tree whose last node lies below a node
\* that is not the first child.
GoLastIsLastLineWitness ==
    /\ Len(hist) >= 2
    /\ hist[2].key = "G"
    /\ hist[1].key = "G"
    /\ status = "running"
    /\ IsSome(selected)
    /\ Len(Unwrap(selected)) >= 3
    /\ Unwrap(selected)[2] >= 1

\* ----------------------------------------------------------------- C17
\* C17: the selection is absent exactly when the tree is empty, and the
\* root list never holds more than one node; once present the selection
\* stays present.
SingleRoot ==
    /\ selected = None <=> tree = <<>>
    /\ Len(tree) <= 1
    /\ hist # <<>> => (IsSome(hist[1].selected) => IsSome(selected))
    /\ hist # <<>> => (hist[1].tree # <<>> => Len(tree) = Len(hist[1].tree))

\* 'A' pressed again after go-to-first has put the selection on the root:
\* the root list still has one node.
SingleRootWitness ==
    /\ Pressed("A")
    /\ hist[1].selected = Some(<<0>>)
    /\ NodeCount(hist[1].tree) >= 2
    /\ Len(tree) = 1
    /\ NodeCount(tree) = NodeCount(hist[1].tree) + 1

\* ----------------------------------------------------------------- C18
\* C18: the unchecked index arithmetic never fails: the loop never panics,
\* a present selection is a non-empty path, get_node_mut finds its node,
\* get_parent_children_mut finds the list of its parent prefix, and that
\* list is non-empty, so len() - 1 in the 'j' handler does not underflow.
IndexArithmeticSafe ==
    /\ status # "panic"
    /\ IsSome(selected) =>
         /\ Unwrap(selected) # <<>>
         /\ IsSome(get_node_mut(tree, Unwrap(selected)))
         /\ IsSome(get_parent_children_mut(tree, Vec_init(Unwrap(selected))))
         /\ Len(Unwrap(get_parent_children_mut(tree, Vec_init(Unwrap(selected))))) >= 1
         /\ Vec_last(Unwrap(selected))
              < Len(Unwrap(get_parent_children_mut(tree, Vec_init(Unwrap(selected)))))
         /\ \A i \in 1 .. Len(Unwrap(selected)) : Unwrap(selected)[i] >= 0

\* 'j' has evaluated len() - 1 on a nested sibling list and moved on.
IndexArithmeticSafeWitness ==
    /\ Pressed("j")
    /\ IsSome(hist[1].selected)
    /\ Len(Unwrap(hist[1].selected)) >= 2
    /\ selected # hist[1].selected
    /\ status = "running"

\* ----------------------------------------------------------------- C19
\* The indices of the rendered lines that carry the highlight.
Highlighted == {i \in 1 .. Len(lines) : lines[i].highlighted}

\* C19: the rendering highlights exactly one line when the tree is not
\* empty and none when it is, and the highlighted line is the one of the
\* node whose index path is the selection.
OneLineHighlighted ==
    Rendered =>
        LET P == PathsOf(tree, <<>>) IN
        /\ Cardinality(Highlighted) = IF tree = <<>> THEN 0 ELSE 1
        /\ \A p \in P :
             (Rank(P, p) \in Highlighted) <=> (selected = Some(p))

\* A rendering whose highlight is on a nested node that is neither the
\* first nor the last line.
OneLineHighlightedWitness ==
    /\ Rendered
    /\ Len(lines) >= 3
    /\ Highlighted = {2}
    /\ IsSome(selected)
    /\ Len(Unwrap(selected)) >= 2

====
